---- MODULE Spec2Model ----
(***************************************************************************)
(* A model of devtodo.py: a command-line task manager that keeps an        *)
(* ordered list of tasks in the JSON file .todo.json of the working        *)
(* directory.  Every command loads the whole list, changes it in memory    *)
(* and writes it back.                                                     *)
(*                                                                         *)
(* Text is modelled as a sequence of one-character strings, so that the    *)
(* regular expressions of parse_tags_and_priority are computed character   *)
(* by character.  An optional argument (Python None or a value) is the     *)
(* empty sequence or a one-element sequence <<value>>.                     *)
(***************************************************************************)
EXTENDS Integers, Sequences, FiniteSets, TLC

(***************************************************************************)
(* Bounds of the model.                                                    *)
(***************************************************************************)
\* longest raw text given to the parser in SpecParse
MaxLen == 5
\* most tasks the store holds (add is not offered beyond it)
MaxTasks == 2
\* last value of the clock, in seconds
MaxTime == 1

(***************************************************************************)
(* Characters.                                                             *)
(***************************************************************************)
\* characters matched by \w
WordChars == {"a", "b", "l", "o", "w", "L", "W"}
\* characters matched by \s
SpaceChars == {" "}
\* the characters SpecParse builds its inputs from
Alphabet == {"l", "o", "w", "L", " ", "#", "@"}

IsWord(c) == c \in WordChars
IsSpace(c) == c \in SpaceChars

\* str.lower() on one character
LowerChar(c) == IF c = "L" THEN "l" ELSE IF c = "W" THEN "w" ELSE c
\* str.lower()
Lower(s) == [i \in 1..Len(s) |-> LowerChar(s[i])]

NoneArg == <<>>
Some(x) == <<x>>
IsGiven(o) == o # <<>>
Val(o) == o[1]

(***************************************************************************)
(* PRIORITIES, PRIORITY_NAMES                                              *)
(***************************************************************************)
LOW == <<"l", "o", "w">>
NORMAL == <<"n", "o", "r", "m", "a", "l">>
HIGH == <<"h", "i", "g", "h">>
URGENT == <<"u", "r", "g", "e", "n", "t">>

PriorityKeys == {LOW, NORMAL, HIGH, URGENT}

PRIORITIES(name) ==
    CASE name = LOW -> 1
      [] name = NORMAL -> 2
      [] name = HIGH -> 3
      [] name = URGENT -> 4

\* PRIORITIES.get(name, default)
PrioritiesGet(name, default) ==
    IF name \in PriorityKeys THEN PRIORITIES(name) ELSE default

(***************************************************************************)
(* parse_tags_and_priority                                                 *)
(***************************************************************************)
\* first index at or after i that is not a word character (end of \w+)
RECURSIVE WordEnd(_, _)
WordEnd(s, i) ==
    IF i <= Len(s) /\ IsWord(s[i]) THEN WordEnd(s, i + 1) ELSE i

\* first index at or after i that is not whitespace (end of \s*)
RECURSIVE SpaceEnd(_, _)
SpaceEnd(s, i) ==
    IF i <= Len(s) /\ IsSpace(s[i]) THEN SpaceEnd(s, i + 1) ELSE i

\* the pattern  mark\w+  matches at index i
TokenAt(s, i, mark) ==
    i < Len(s) /\ s[i] = mark /\ IsWord(s[i + 1])

\* re.findall(mark(\w+), s), scanning from index i
RECURSIVE FindAll(_, _, _)
FindAll(s, i, mark) ==
    IF i > Len(s) THEN <<>>
    ELSE IF TokenAt(s, i, mark)
         THEN <<SubSeq(s, i + 1, WordEnd(s, i + 1) - 1)>>
                  \o FindAll(s, WordEnd(s, i + 1), mark)
         ELSE FindAll(s, i + 1, mark)

\* re.sub(mark\w+\s*, '', s), scanning from index i
RECURSIVE SubToken(_, _, _)
SubToken(s, i, mark) ==
    IF i > Len(s) THEN <<>>
    ELSE IF TokenAt(s, i, mark)
         THEN SubToken(s, SpaceEnd(s, WordEnd(s, i + 1)), mark)
         ELSE <<s[i]>> \o SubToken(s, i + 1, mark)

\* str.strip()
RECURSIVE Strip(_)
Strip(s) ==
    IF s = <<>> THEN s
    ELSE IF IsSpace(s[1]) THEN Strip(Tail(s))
    ELSE IF IsSpace(s[Len(s)]) THEN Strip(SubSeq(s, 1, Len(s) - 1))
    ELSE s

\* ' '.join(s.split()) on a stripped string: every whitespace run becomes one space
RECURSIVE Collapse(_, _)
Collapse(s, i) ==
    IF i > Len(s) THEN <<>>
    ELSE IF IsSpace(s[i]) THEN <<" ">> \o Collapse(s, SpaceEnd(s, i))
    ELSE <<s[i]>> \o Collapse(s, i + 1)

JoinSplit(s) == Collapse(Strip(s), 1)

\* the description once the #tokens are removed (line 67)
WithoutTags(desc) == Strip(SubToken(desc, 1, "#"))

\* re.search(@(\w+), s): the tokens found, the first one is the match
PriorityTokens(s) == FindAll(s, 1, "@")

\* the priority of lines 70-78
ParsedPriority(s) ==
    IF PriorityTokens(s) # <<>>
    THEN PrioritiesGet(Lower(PriorityTokens(s)[1]), 2)
    ELSE 2

\* the description once the @tokens are removed (line 79)
WithoutPriority(s) ==
    IF PriorityTokens(s) # <<>> THEN Strip(SubToken(s, 1, "@")) ELSE s

\* parse_tags_and_priority(desc): ok is FALSE where the code returns None
parse_tags_and_priority(desc) ==
    LET tags == FindAll(desc, 1, "#")
        d1 == WithoutTags(desc)
        priority == ParsedPriority(d1)
        d2 == JoinSplit(WithoutPriority(d1))
    IN  IF d2 = <<>>
        THEN [ok |-> FALSE, desc |-> <<>>, tags |-> <<>>, priority |-> priority]
        ELSE [ok |-> TRUE, desc |-> d2, tags |-> tags, priority |-> priority]

(***************************************************************************)
(* State.                                                                  *)
(***************************************************************************)
VARIABLES
    file,     \* .todo.json: [kind, content]; content is the task array when kind = "tasks"
    now,      \* the clock read by datetime.now(), in seconds
    last,     \* the last command run: its arguments, return value, exit code, saves
    before,   \* file as it was when the last command started
    shown,    \* the lines list_tasks printed: [idx: number displayed, pos: position of the task in the loaded list]
    pair,     \* the done/undone command that ran just before the last command, and file before it
    pstate    \* SpecParse: the text under parse and its results

vars == <<file, now, last, before, shown, pair, pstate>>

Absent == [kind |-> "absent", content |-> <<>>]
TaskFile(tasks) == [kind |-> "tasks", content |-> tasks]

(***************************************************************************)
(* load_tasks, save_tasks                                                  *)
(***************************************************************************)
\* lines 40-46: back-fill the fields an old record lacks
Migrate(task, t) ==
    [desc |-> task.desc,
     done |-> task.done,
     priority |-> IF "priority" \in DOMAIN task THEN task.priority ELSE 2,
     tags |-> IF "tags" \in DOMAIN task THEN task.tags ELSE <<>>,
     created |-> IF "created" \in DOMAIN task THEN task.created ELSE t]

\* load_tasks(): raised is TRUE when an exception leaves the function.
\*   absent     the file does not exist
\*   malformed  json.load raises JSONDecodeError, which line 48 catches
\*   numbers    an array of numbers: 'priority' not in 1 raises TypeError
\*   object     a JSON object: its keys are strings, task['priority'] = 2 raises TypeError
\*   unreadable open() raises PermissionError
load_tasks(f, t) ==
    CASE f.kind = "absent" -> [raised |-> FALSE, tasks |-> <<>>]
      [] f.kind = "tasks" ->
            [raised |-> FALSE,
             tasks |-> [i \in 1..Len(f.content) |-> Migrate(f.content[i], t)]]
      [] f.kind = "malformed" -> [raised |-> FALSE, tasks |-> <<>>]
      [] f.kind \in {"numbers", "object", "unreadable"} ->
            [raised |-> TRUE, tasks |-> <<>>]

\* save_tasks(tasks): the file becomes the array (the write is taken to succeed)
save_tasks(tasks) == TaskFile(tasks)

(***************************************************************************)
(* One command: main() dispatches inside try/except (lines 524-549); an    *)
(* exception that leaves the operation ends the process with exit code 1.  *)
(***************************************************************************)
NoPair == [cmd |-> "other"]
NoCommand == [cmd |-> "none", exit |-> 0, saves |-> 0]

\* a command starts at the shell prompt, when no other command is running
AtPrompt == last = NoCommand

\* the common part of every command step
Finish(newFile, rec, lines) ==
    /\ file' = newFile
    /\ last' = rec
    /\ before' = file
    /\ shown' = lines
    /\ UNCHANGED <<now, pair, pstate>>

\* the process ends (main returns, or sys.exit(1) at line 549): what it
\* printed is gone, the file stays.  A done/undone that ran on a valid index
\* is remembered together with the file it started from.
Exit ==
    /\ last # NoCommand
    /\ last' = NoCommand
    /\ before' = file
    /\ shown' = <<>>
    /\ pair' = IF last.cmd \in {"done", "undone"} /\ last.exit = 0 /\ last.ok
               THEN [cmd |-> last.cmd, index |-> last.index, file |-> before]
               ELSE NoPair
    /\ UNCHANGED <<file, now, pstate>>

\* the step of a command whose load raised
Crash(cmd) == Finish(file, [cmd |-> cmd, exit |-> 1, saves |-> 0], <<>>)

(***************************************************************************)
(* add_task                                                                *)
(***************************************************************************)
\* line 97
FinalPriority(priority, inline_priority) ==
    IF IsGiven(priority)
    THEN PrioritiesGet(Lower(Val(priority)), inline_priority)
    ELSE inline_priority

\* line 98: tags if tags else inline_tags
FinalTags(tags, inline_tags) ==
    IF IsGiven(tags) /\ Val(tags) # <<>> THEN Val(tags) ELSE inline_tags

add_task(desc, priority, tags) ==
    /\ AtPrompt
    /\ LET p == parse_tags_and_priority(desc)
           l == load_tasks(file, now)
           task == [desc |-> p.desc,
                    done |-> FALSE,
                    priority |-> FinalPriority(priority, p.priority),
                    tags |-> FinalTags(tags, p.tags),
                    created |-> now]
           rec(ok, saves) ==
               [cmd |-> "add", text |-> desc, priority |-> priority, tags |-> tags,
                ok |-> ok, exit |-> 0, saves |-> saves]
       IN  IF ~p.ok THEN Finish(file, rec(FALSE, 0), <<>>)
           ELSE IF l.raised THEN Crash("add")
           ELSE /\ Len(l.tasks) < MaxTasks
                /\ Finish(save_tasks(Append(l.tasks, task)), rec(TRUE, 1), <<>>)

(***************************************************************************)
(* mark_done, mark_undone, delete_task, clear_done                         *)
(***************************************************************************)
\* lines 212, 227, 242, 254
ValidIndex(index, tasks) == 1 <= index /\ index <= Len(tasks)

\* SetDone with the value of mark_done in both commands
SetDoneAlwaysTrue(tasks, index, value) ==
    [tasks EXCEPT ![index] = [@ EXCEPT !.done = TRUE]]

SetDone(tasks, index, value) ==
    [tasks EXCEPT ![index] = [@ EXCEPT !.done = value]]

\* Mark without the lower half of the range test: as in Python, an index
\* below 1 then counts from the end of the list (tasks[index - 1])
MarkWrapsIndex(cmd, index, target) ==
    /\ AtPrompt
    /\ LET l == load_tasks(file, now)
           at == IF index >= 1 THEN index ELSE Len(l.tasks) + index
           rec(ok, saves) ==
               [cmd |-> cmd, index |-> index, ok |-> ok, exit |-> 0, saves |-> saves]
       IN  IF l.raised THEN Crash(cmd)
           ELSE IF index > Len(l.tasks) THEN Finish(file, rec(FALSE, 0), <<>>)
           ELSE IF at < 1 THEN Crash(cmd)
           ELSE IF l.tasks[at].done = target THEN Finish(file, rec(TRUE, 0), <<>>)
           ELSE Finish(save_tasks(SetDone(l.tasks, at, target)), rec(TRUE, 1), <<>>)

\* mark_done (target TRUE) and mark_undone (target FALSE) differ in the value only
Mark(cmd, index, target) ==
    /\ AtPrompt
    /\ LET l == load_tasks(file, now)
           rec(ok, saves) ==
               [cmd |-> cmd, index |-> index, ok |-> ok, exit |-> 0, saves |-> saves]
       IN  IF l.raised THEN Crash(cmd)
           ELSE IF ~ValidIndex(index, l.tasks) THEN Finish(file, rec(FALSE, 0), <<>>)
           ELSE IF l.tasks[index].done = target THEN Finish(file, rec(TRUE, 0), <<>>)
           ELSE Finish(save_tasks(SetDone(l.tasks, index, target)), rec(TRUE, 1), <<>>)

mark_done(index) == Mark("done", index, TRUE)

mark_undone(index) == Mark("undone", index, FALSE)

\* Pop one place too far: tasks.pop(index)
PopNext(tasks, index) ==
    SubSeq(tasks, 1, index) \o SubSeq(tasks, index + 2, Len(tasks))

\* tasks.pop(index - 1)
Pop(tasks, index) ==
    SubSeq(tasks, 1, index - 1) \o SubSeq(tasks, index + 1, Len(tasks))

delete_task(index) ==
    /\ AtPrompt
    /\ LET l == load_tasks(file, now)
           rec(ok, saves) ==
               [cmd |-> "rm", index |-> index, ok |-> ok, exit |-> 0, saves |-> saves]
       IN  IF l.raised THEN Crash("rm")
           ELSE IF ~ValidIndex(index, l.tasks) THEN Finish(file, rec(FALSE, 0), <<>>)
           ELSE Finish(save_tasks(Pop(l.tasks, index)), rec(TRUE, 1), <<>>)

\* WithDone with the test negated
RECURSIVE WithDoneNegated(_, _)
WithDoneNegated(tasks, value) ==
    IF tasks = <<>> THEN <<>>
    ELSE IF tasks[1].done # value
         THEN <<tasks[1]>> \o WithDoneNegated(Tail(tasks), value)
         ELSE WithDoneNegated(Tail(tasks), value)

\* [t for t in tasks if t["done"] = value]
RECURSIVE WithDone(_, _)
WithDone(tasks, value) ==
    IF tasks = <<>> THEN <<>>
    ELSE IF tasks[1].done = value
         THEN <<tasks[1]>> \o WithDone(Tail(tasks), value)
         ELSE WithDone(Tail(tasks), value)

clear_done ==
    /\ AtPrompt
    /\ LET l == load_tasks(file, now)
           done_tasks == WithDone(l.tasks, TRUE)
           new_tasks == WithDone(l.tasks, FALSE)
           rec(saves) ==
               [cmd |-> "clear", removed |-> Len(done_tasks), exit |-> 0, saves |-> saves]
       IN  IF l.raised THEN Crash("clear")
           ELSE IF done_tasks = <<>> THEN Finish(file, rec(0), <<>>)
           ELSE Finish(save_tasks(new_tasks), rec(1), <<>>)

(***************************************************************************)
(* update_task                                                             *)
(***************************************************************************)
\* "if desc:" (line 261): the description is given and is not the empty string
DescGiven(desc) == IsGiven(desc) /\ Val(desc) # <<>>

\* ApplyDesc that replaces the description only and drops the inline
\* priority and tags
ApplyDescOnly(task, p, priority, tags) ==
    [task EXCEPT !.desc = p.desc]

\* lines 261-282: the task once the new description is applied (p parsed well)
ApplyDesc(task, p, priority, tags) ==
    [task EXCEPT
        !.desc = p.desc,
        !.priority = IF ~IsGiven(priority) /\ p.priority # task.priority
                     THEN p.priority ELSE @,
        !.tags = IF ~IsGiven(tags) /\ p.tags # task.tags THEN p.tags ELSE @]

\* lines 284-289
ApplyPriority(task, priority) ==
    IF IsGiven(priority)
          /\ Lower(Val(priority)) \in PriorityKeys
          /\ PRIORITIES(Lower(Val(priority))) # task.priority
    THEN [task EXCEPT !.priority = PRIORITIES(Lower(Val(priority)))]
    ELSE task

\* lines 291-297
ApplyTags(task, tags) ==
    IF IsGiven(tags) /\ Val(tags) # task.tags
    THEN [task EXCEPT !.tags = Val(tags)]
    ELSE task

update_task(index, desc, priority, tags) ==
    /\ AtPrompt
    /\ LET l == load_tasks(file, now)
           p == parse_tags_and_priority(Val(desc))
           task == l.tasks[index]
           t1 == IF DescGiven(desc) THEN ApplyDesc(task, p, priority, tags) ELSE task
           t3 == ApplyTags(ApplyPriority(t1, priority), tags)
           \* "changes" is empty: the description always counts as a change
           nochange == ~DescGiven(desc) /\ t3 = task
           rec(ok, saves) ==
               [cmd |-> "update", index |-> index, desc |-> desc,
                priority |-> priority, tags |-> tags,
                ok |-> ok, exit |-> 0, saves |-> saves]
       IN  IF l.raised THEN Crash("update")
           ELSE IF ~ValidIndex(index, l.tasks) THEN Finish(file, rec(FALSE, 0), <<>>)
           ELSE IF DescGiven(desc) /\ ~p.ok THEN Finish(file, rec(FALSE, 0), <<>>)
           ELSE IF nochange THEN Finish(file, rec(TRUE, 0), <<>>)
           ELSE Finish(save_tasks([l.tasks EXCEPT ![index] = t3]), rec(TRUE, 1), <<>>)

(***************************************************************************)
(* list_tasks.  The lists of the code hold task objects; the model holds   *)
(* the position each object had in the loaded list, so that the object     *)
(* printed on a line is known, and compares objects by their fields where  *)
(* the code compares them (tasks.index).                                   *)
(***************************************************************************)
\* [x for x in seq if Keep[x]]
RECURSIVE Filter(_, _)
Filter(seq, keep) ==
    IF seq = <<>> THEN <<>>
    ELSE IF seq[1] \in keep THEN <<seq[1]>> \o Filter(Tail(seq), keep)
    ELSE Filter(Tail(seq), keep)

\* line 154: some filter tag equals, in lower case, some tag of the task
TagMatch(task, filter_tags) ==
    \E i \in 1..Len(filter_tags) : \E j \in 1..Len(task.tags) :
        Lower(filter_tags[i]) = Lower(task.tags[j])

\* a sorts before b: line 163 (key (-priority, created)) and line 165
\* (key created, reverse=True)
SortsBefore(a, b, sort_by) ==
    IF sort_by = "priority"
    THEN \/ a.priority > b.priority
         \/ a.priority = b.priority /\ a.created < b.created
    ELSE a.created > b.created

\* insert position x into the sorted seq behind every element it does not sort before
RECURSIVE Insert(_, _, _, _)
Insert(tasks, seq, x, sort_by) ==
    IF seq = <<>> THEN <<x>>
    ELSE IF SortsBefore(tasks[x], tasks[seq[1]], sort_by) THEN <<x>> \o seq
    ELSE <<seq[1]>> \o Insert(tasks, Tail(seq), x, sort_by)

\* list.sort: stable, equal keys keep their order (also with reverse=True)
RECURSIVE StableSort(_, _, _)
StableSort(tasks, seq, sort_by) ==
    IF seq = <<>> THEN <<>>
    ELSE Insert(tasks,
                StableSort(tasks, SubSeq(seq, 1, Len(seq) - 1), sort_by),
                seq[Len(seq)], sort_by)

\* tasks.index(task) + 1: the first place of the list holding an equal object
IndexOf(tasks, order, x) ==
    CHOOSE k \in 1..Len(order) :
        /\ tasks[order[k]] = tasks[x]
        /\ \A j \in 1..(k - 1) : tasks[order[j]] # tasks[x]

\* the priority filter is active (lines 156-158)
PriorityFilterOn(filter_priority) ==
    IsGiven(filter_priority) /\ Lower(Val(filter_priority)) \in PriorityKeys

\* filtered_tasks is still the very list object "tasks" when it is sorted:
\* no comprehension of lines 149-160 has replaced it
SameList(filter_tags, filter_priority, show_done) ==
    /\ show_done
    /\ ~(IsGiven(filter_tags) /\ Val(filter_tags) # <<>>)
    /\ ~PriorityFilterOn(filter_priority)

list_tasks(filter_tags, filter_priority, sort_by, show_done) ==
    /\ AtPrompt
    /\ LET l == load_tasks(file, now)
           tasks == l.tasks
           all == [i \in 1..Len(tasks) |-> i]
           f1 == IF show_done THEN all
                 ELSE Filter(all, {i \in 1..Len(tasks) : ~tasks[i].done})
           f2 == IF IsGiven(filter_tags) /\ Val(filter_tags) # <<>>
                 THEN Filter(f1, {i \in 1..Len(tasks) : TagMatch(tasks[i], Val(filter_tags))})
                 ELSE f1
           f3 == IF PriorityFilterOn(filter_priority)
                 THEN Filter(f2, {i \in 1..Len(tasks) :
                           tasks[i].priority = PRIORITIES(Lower(Val(filter_priority)))})
                 ELSE f2
           filtered_tasks == StableSort(tasks, f3, sort_by)
           \* the order of "tasks" when original_idx is computed (lines 201, 206)
           order == IF SameList(filter_tags, filter_priority, show_done)
                    THEN filtered_tasks ELSE all
           lines == [k \in 1..Len(filtered_tasks) |->
                       [idx |-> IndexOf(tasks, order, filtered_tasks[k]),
                        pos |-> filtered_tasks[k]]]
           rec == [cmd |-> "ls", tag |-> filter_tags, priority |-> filter_priority,
                   sort |-> sort_by, done |-> show_done,
                   grouped |-> (sort_by = "priority" /\ ~IsGiven(filter_priority)),
                   exit |-> 0, saves |-> 0]
       IN  IF l.raised THEN Crash("ls")
           ELSE Finish(file, rec, lines)

(***************************************************************************)
(* show_stats: reads the list, changes nothing                             *)
(***************************************************************************)
show_stats ==
    /\ AtPrompt
    /\ LET l == load_tasks(file, now)
           rec == [cmd |-> "stats", total |-> Len(l.tasks),
                   completed |-> Len(WithDone(l.tasks, TRUE)),
                   exit |-> 0, saves |-> 0]
       IN  IF l.raised THEN Crash("stats")
           ELSE Finish(file, rec, <<>>)

(***************************************************************************)
(* Time passes between two commands.                                       *)
(***************************************************************************)
Tick ==
    /\ last = NoCommand
    /\ now < MaxTime
    /\ now' = now + 1
    /\ UNCHANGED <<file, last, before, shown, pair, pstate>>

(***************************************************************************)
(* The arguments the commands are run with.                                *)
(***************************************************************************)
TextA == <<"a">>
TextB == <<"a", " ", "#", "w", " ", "@", "l", "o", "w">>
TextTagOnly == <<"#", "w">>
TagHash == <<"#", "w">>
TagUpper == <<"W">>

AddTexts == {TextA, TextB, TextTagOnly}
UpdateDescs == {NoneArg, Some(<<>>), Some(TextTagOnly), Some(TextA), Some(TextB)}
PriorityArgs == {NoneArg, Some(LOW)}
TagArgs == {NoneArg, Some(<<>>), Some(<<TagHash>>)}
FilterTagArgs == {NoneArg, Some(<<TagUpper>>)}
FilterPriorityArgs == {NoneArg, Some(LOW), Some(NORMAL)}
SortArgs == {"priority", "created"}
Indexes == (0 - 1)..(MaxTasks + 1)

(***************************************************************************)
(* Specifications.                                                         *)
(***************************************************************************)
Idle == [pc |-> "idle"]

Init ==
    /\ file = Absent
    /\ now = 0
    /\ last = NoCommand
    /\ before = Absent
    /\ shown = <<>>
    /\ pair = NoPair
    /\ pstate = Idle

\* Spec: the commands that change the store, run in any order from an empty store
Next ==
    \/ \E desc \in AddTexts, priority \in PriorityArgs, tags \in TagArgs :
            add_task(desc, priority, tags)
    \/ \E index \in Indexes : mark_done(index)
    \/ \E index \in Indexes : mark_undone(index)
    \/ \E index \in Indexes : delete_task(index)
    \/ \E index \in Indexes, desc \in UpdateDescs, priority \in PriorityArgs,
          tags \in TagArgs :
            update_task(index, desc, priority, tags)
    \/ clear_done
    \/ show_stats
    \/ Exit

Spec == Init /\ [][Next]_vars

\* SpecList: tasks are added and completed while time passes, and listed
NextList ==
    \/ \E desc \in {TextA, TextB} : add_task(desc, NoneArg, NoneArg)
    \/ \E index \in 1..MaxTasks : mark_done(index)
    \/ \E ft \in FilterTagArgs, fp \in FilterPriorityArgs, sort_by \in SortArgs,
          show_done \in BOOLEAN :
            list_tasks(ft, fp, sort_by, show_done)
    \/ Tick
    \/ Exit

SpecList == Init /\ [][NextList]_vars

\* SpecParse: parse_tags_and_priority on every text of at most MaxLen
\* characters, then on the description it returned
InputTexts == UNION {[1..n -> Alphabet] : n \in 0..MaxLen}

InitParse ==
    /\ file = Absent
    /\ now = 0
    /\ last = NoCommand
    /\ before = Absent
    /\ shown = <<>>
    /\ pair = NoPair
    /\ pstate \in {[pc |-> "input", text |-> t] : t \in InputTexts}

Parse ==
    /\ pstate.pc = "input"
    /\ pstate' = [pc |-> "parsed", text |-> pstate.text,
                  first |-> parse_tags_and_priority(pstate.text)]
    /\ UNCHANGED <<file, now, last, before, shown, pair>>

Reparse ==
    /\ pstate.pc = "parsed"
    /\ pstate.first.ok
    /\ pstate' = [pc |-> "reparsed", text |-> pstate.text, first |-> pstate.first,
                  again |-> parse_tags_and_priority(pstate.first.desc)]
    /\ UNCHANGED <<file, now, last, before, shown, pair>>

NextParse == Parse \/ Reparse

SpecParse == InitParse /\ [][NextParse]_vars

\* SpecFile: the commands run in a directory whose .todo.json was not
\* written by this version of the program
LegacyTask == [desc |-> TextA, done |-> FALSE]

FoundFiles ==
    {Absent, TaskFile(<<LegacyTask>>)}
        \cup {[kind |-> k, content |-> <<>>] :
                k \in {"malformed", "numbers", "object", "unreadable"}}

InitFile ==
    /\ file \in FoundFiles
    /\ now = 0
    /\ last = NoCommand
    /\ before = file
    /\ shown = <<>>
    /\ pair = NoPair
    /\ pstate = Idle

NextFile ==
    \/ Next
    \/ \E show_done \in BOOLEAN : list_tasks(NoneArg, NoneArg, "priority", show_done)

SpecFile == InitFile /\ [][NextFile]_vars

(***************************************************************************)
(* Properties.                                                             *)
(***************************************************************************)
\* a command ran to its end without an exception
Completed(cmd) == last.cmd = cmd /\ last.exit = 0

\* index names a task of the list: it lies in 1..N
InRange(index, tasks) == index \in 1..Len(tasks)

\* C1: every line list prints carries, as its index, the position the task
\* has in the stored list; so no two stored tasks are printed with one index.
\* (SpecList)
C1_ShownIndexIsPosition ==
    Completed("ls") => \A k \in 1..Len(shown) : shown[k].idx = shown[k].pos

\* the done/undone command of the last step follows the opposite command on
\* the same valid index
OppositePair ==
    /\ pair.cmd \in {"done", "undone"}
    /\ last.cmd \in {"done", "undone"}
    /\ last.cmd # pair.cmd
    /\ last.exit = 0
    /\ last.ok
    /\ last.index = pair.index

\* the task fields other than done
SameButDone(t, u) ==
    /\ t.desc = u.desc
    /\ t.priority = u.priority
    /\ t.tags = u.tags
    /\ t.created = u.created

\* C2, as stated: markDone then markUndone, or markUndone then markDone, on a
\* valid index leaves the task's done value as it was before the two
\* commands, whatever it was, and changes nothing else.
C2_PairRestoresDone ==
    OppositePair => file.content = pair.file.content

\* C2, amended: after the two commands the task's done value is the one the
\* second command sets (FALSE after done;undone, TRUE after undone;done), so
\* it is the value from before the pair exactly when the task started in that
\* state; every other field of every task is unchanged.
C2_PairEndsInSecondTarget ==
    OppositePair =>
        LET old == pair.file.content
            new == file.content
            i == last.index
        IN  /\ Len(new) = Len(old)
            /\ \A j \in 1..Len(old) :
                /\ SameButDone(new[j], old[j])
                /\ j # i => new[j].done = old[j].done
            /\ new[i].done = (last.cmd = "done")
            /\ (new[i].done = old[i].done) <=> (old[i].done = (last.cmd = "done"))

\* C2 witness: done then undone ran on task 1 of two, which was pending
C2_Witness ==
    /\ OppositePair
    /\ pair.cmd = "done"
    /\ last.index = 1
    /\ Len(pair.file.content) = 2
    /\ ~pair.file.content[1].done
    /\ before.content[1].done
    /\ ~file.content[1].done

\* C3: a description returned by parse parses again to itself, with no tag
\* and priority 2.  (SpecParse)
C3_ParseIdempotent ==
    pstate.pc = "reparsed" =>
        /\ pstate.again.ok
        /\ pstate.again.tags = <<>>
        /\ pstate.again.priority = 2
        /\ pstate.again.desc = pstate.first.desc

\* C4: no tag of a stored task contains the character #.
C4_NoHashInTags ==
    \A i \in 1..Len(file.content) :
        \A j \in 1..Len(file.content[i].tags) :
            \A k \in 1..Len(file.content[i].tags[j]) :
                file.content[i].tags[j][k] # "#"

\* C5: the task add stores has the explicit tags whenever they are given,
\* the empty sequence included, and the tags parsed from the text otherwise.
C5_ExplicitTagsWin ==
    (Completed("add") /\ last.ok) =>
        file.content[Len(file.content)].tags =
            IF IsGiven(last.tags) THEN Val(last.tags)
            ELSE parse_tags_and_priority(last.text).tags

\* C6: a command that finds a file it cannot read as a task array reports it,
\* ends normally (exit code 0) and, unless it saves, leaves the file as it
\* was.  (SpecFile)
C6_ReadErrorNotFatal ==
    (last # NoCommand
        /\ before.kind \in {"malformed", "numbers", "object", "unreadable"}) =>
        /\ last.exit = 0
        /\ last.saves = 0 => file = before

\* C7: delete(i) on a valid index removes the task at position i and no
\* other: one task fewer, those before i in place, those after i one place up.
C7_DeleteRemovesTaskAtIndex ==
    (Completed("rm") /\ InRange(last.index, before.content)) =>
        LET old == before.content
            new == file.content
            i == last.index
        IN  /\ last.ok
            /\ Len(new) = Len(old) - 1
            /\ \A j \in 1..(i - 1) : new[j] = old[j]
            /\ \A j \in (i + 1)..Len(old) : new[j - 1] = old[j]

\* C7 witness: the first of two different tasks was deleted
C7_Witness ==
    /\ Completed("rm")
    /\ last.index = 1
    /\ Len(before.content) = 2
    /\ before.content[1] # before.content[2]
    /\ file.content = <<before.content[2]>>

\* the positions of the pending tasks
PendingAt(tasks) == {p \in 1..Len(tasks) : ~tasks[p].done}

C9_BadIndexChangesNothing ==
    (last.cmd \in {"done", "undone", "rm", "update"}
        /\ last.exit = 0
        /\ ~InRange(last.index, before.content)) =>
        /\ ~last.ok
        /\ last.saves = 0
        /\ file = before

\* C9 witness: update ran with index 0 and an explicit priority on a store
\* of two tasks
C9_Witness ==
    /\ Completed("update")
    /\ last.index = 0
    /\ IsGiven(last.priority)
    /\ Len(before.content) = 2
    /\ ~last.ok

\* C10: when the text of add, or the new description of update on a valid
\* index, is empty once its #tags and @priority are stripped, the store is
\* left as it was and nothing is saved.
C10_EmptyDescriptionAborts ==
    (\/ Completed("add") /\ ~parse_tags_and_priority(last.text).ok
     \/ /\ Completed("update")
        /\ InRange(last.index, before.content)
        /\ IsGiven(last.desc)
        /\ ~parse_tags_and_priority(Val(last.desc)).ok) =>
        /\ last.saves = 0
        /\ file = before

\* update ran on a valid index with a new description that parsed well
UpdatedDescription ==
    /\ Completed("update")
    /\ InRange(last.index, before.content)
    /\ IsGiven(last.desc)
    /\ parse_tags_and_priority(Val(last.desc)).ok

\* C11: after update(index, newDesc) on a valid index with a newDesc that
\* parses, the stored priority is the explicit one when one is passed and
\* the one parsed from newDesc otherwise (2 without @token), and the stored
\* tags are the explicit ones when passed and those parsed from newDesc
\* otherwise (none without #tag), whatever the task held before.
C11_UpdateStoresParsedOrExplicit ==
    UpdatedDescription =>
        LET p == parse_tags_and_priority(Val(last.desc))
            t == file.content[last.index]
        IN  /\ last.ok
            /\ last.saves = 1
            /\ t.desc = p.desc
            /\ t.priority = IF IsGiven(last.priority)
                            THEN PRIORITIES(Val(last.priority))
                            ELSE p.priority
            /\ t.tags = IF IsGiven(last.tags) THEN Val(last.tags) ELSE p.tags

\* C11 witness: a task of priority low with a tag got a new description
\* without @token or #tag and no explicit argument, and is now normal and
\* without tags
C11_Witness ==
    /\ UpdatedDescription
    /\ last.desc = Some(TextA)
    /\ ~IsGiven(last.priority)
    /\ ~IsGiven(last.tags)
    /\ before.content[last.index].priority = 1
    /\ before.content[last.index].tags # <<>>
    /\ file.content[last.index].priority = 2
    /\ file.content[last.index].tags = <<>>

====
